---- MODULE Spec2Model ----
(***************************************************************************)
(* Model of odo/backends/sql_csv.py: bulk-loading a CSV resource into a    *)
(* SQL table through the engine's native loader.                           *)
(*                                                                         *)
(* One call is modelled at a time.  A call is either                       *)
(*   entry = "append"  : append_csv_to_sql_table(tbl, csv, **kwargs)       *)
(*   entry = "compile" : a CopyFromCSV built and compiled directly         *)
(* Python's None / True / False are the strings "None" / "True" / "False", *)
(* so that a tri-state option can be compared with either.  A path is the  *)
(* pair <<prefix, rest>>, so that startswith('s3://') is a test of the     *)
(* prefix.  A SQL statement is the record of its clauses, an argument      *)
(* vector is a sequence of strings.                                        *)
(***************************************************************************)
EXTENDS Integers, Sequences, FiniteSets, TLC

\* ---------------------------------------------------------------- bounds
\* rows an engine / an external process may load during one command
MaxRows == 2
\* rows in the target table before the call
MaxInitRows == 1

\* ------------------------------------------------------------ vocabulary
None == "None"
Tri == {"True", "False", None}
Bool == {"True", "False"}

Dialects == {"sqlite", "mysql", "postgresql", "redshift", "hive"}
Classes == {"CSV", "S3(CSV)", "SSH(CSV)"}

S3Path == <<"s3://", "bucket/a.csv">>
LocalPath == <<"/", "data/a.csv">>
Paths == {S3Path, LocalPath}

TempS3Path == <<"s3://", "tmp-bucket/t.csv">>
TempLocalPath == <<"/", "tmp/t.csv">>
TempSSHPath == <<"/", "home/u/t.csv">>

NaValues == {"", "NA"}
SchemaOptions == {None, "override"}
TableSchemas == {None, "analytics"}
DefaultSchemas == {"public"}
SkipRows == {0, 1}

NoStmt == [kind |-> "none"]
NoCmd == [kind |-> "none"]

VARIABLES
    pc,         \* position of the call
    entry,      \* "append" or "compile"
    tbl,        \* the sa.Table: [name, schema, dialect, database]
    csv0,       \* the resource the caller passed
    csv,        \* the resource after the relocation step
    kwargs,     \* the caller's keyword options
    stmt,       \* the CopyFromCSV element
    inferred,   \* what infer_header returned ("None" when not called)
    cmd,        \* what the compiler returned
    argv,       \* argument vector of the spawned sqlite3 process
    err,        \* the exception the call ended with ("none" when none)
    log,        \* sequence of the externally visible requests, in order
    rows0,      \* rows visible in the target table before the call
    committed,  \* rows visible in the target table
    pending,    \* rows written inside the open transaction
    txn,        \* a transaction is open on tbl.bind
    temps,      \* temporary copies created by convert
    cleaned,    \* temporary copies whose drop has been requested
    depth       \* number of recursive append calls made

vars == <<pc, entry, tbl, csv0, csv, kwargs, stmt, inferred, cmd, argv, err,
          log, rows0, committed, pending, txn, temps, cleaned, depth>>

\* ----------------------------------------------------------------- helpers
Range(s) == {s[i] : i \in 1..Len(s)}

\* toolz.merge(a, b): keys of b win
merge(a, b) ==
    [k \in (DOMAIN a) \cup (DOMAIN b) |-> IF k \in DOMAIN b THEN b[k] ELSE a[k]]

\* dict.get(k, default) / a keyword argument with a default
Get(d, k, default) == IF k \in DOMAIN d THEN d[k] ELSE default

\* isinstance(csv, S3(CSV))
IsS3(c) == c.cls = "S3(CSV)"

\* str.startswith('s3://')
StartsWithS3(path) == path[1] = "s3://"

\* ------------------------------------------------- conversions of values
\* repr() of a str
Repr(s) == CASE s = "" -> "''" [] s = "NA" -> "'NA'" [] OTHER -> "'?'"

\* bool(): Python truthiness of the option values used here
Truthy(v) == v \notin {None, "False", ""}

\* int() of a bool
IntOfBool(b) == IF b = "True" THEN 1 ELSE 0

\* str(b).upper()
UpperStr(b) == CASE b = "True" -> "TRUE" [] b = "False" -> "FALSE" [] OTHER -> "NONE"

\* str.lower() on the encoding names used here
Lower(s) == CASE s = "UTF-8" -> "utf-8" [] s = "UTF8" -> "utf8" [] OTHER -> s

\* ------------------------------------------------------------ CopyFromCSV
\* header if header is not None else
\*     (csv.has_header if csv.has_header is not None else infer_header(csv))
ResolveHeaderTruthy(header, has_header, inf) ==
    IF Truthy(header) THEN header
    ELSE IF has_header # None THEN has_header ELSE inf

ResolveHeader(header, has_header, inf) ==
    IF header # None THEN header
    ELSE IF has_header # None THEN has_header ELSE inf

\* infer_header is consulted only when both the option and the resource
\* leave the header unknown
NeedsInference(c, kw) == Get(kw, "header", None) = None /\ c.has_header = None

NamedOptions == {"delimiter", "header", "na_value", "lineterminator",
                 "quotechar", "escapechar", "encoding", "skiprows"}

\* CopyFromCSV.__init__(element, csv, **kw); inf is infer_header(csv)
CopyFromCSV(element, c, kw, inf) ==
    [kind           |-> "CopyFromCSV",
     element        |-> element,
     csv            |-> c,
     delimiter      |-> Get(kw, "delimiter", ","),
     header         |-> ResolveHeader(Get(kw, "header", None), c.has_header, inf),
     na_value       |-> Get(kw, "na_value", ""),
     lineterminator |-> Get(kw, "lineterminator", "\\n"),
     quotechar      |-> Get(kw, "quotechar", "\""),
     escapechar     |-> Get(kw, "escapechar", "\\\\"),
     encoding       |-> Get(kw, "encoding", "utf8"),
     skiprows       |-> Get(kw, "skiprows", 0),
     extras         |-> [k \in (DOMAIN kw) \ NamedOptions |-> kw[k]]]

\* getattr(element, name, default) for the attributes set from **kwargs
GetAttr(el, name, default) == Get(el.extras, name, default)

\* --------------------------------------------------------------- compilers
\* A compiler returns [err, cmd, argv, events]: the exception it raised
\* ("none" when it returned), the value returned, the process it spawned and
\* the requests it made, in order.
Raised(e, events) == [err |-> e, cmd |-> NoCmd, argv |-> <<>>, events |-> events]

\* '-%sheader' % ('no' if not element.header else '')
HeaderSwitch(header) == IF ~Truthy(header) THEN "-noheader" ELSE "-header"

SqliteArgv(el) ==
    <<"sqlite3",
      "-nullvalue", Repr(el.na_value),
      HeaderSwitch(el.header),
      "-separator", el.delimiter,
      "-cmd", ".import", el.csv.path[1], el.csv.path[2], el.element.name,
      el.element.database>>

\* tool: find_executable('sqlite3') found the binary;
\* output: the process wrote something to stdout/stderr
compile_from_csv_sqlite(el, tool, output) ==
    IF ~tool THEN Raised("MDNotImplementedError", <<"find_executable">>)
    ELSE IF output
         THEN [err |-> "AssertionError", cmd |-> NoCmd, argv |-> SqliteArgv(el),
               events |-> <<"find_executable", "spawn_sqlite3">>]
         ELSE [err |-> "none", cmd |-> [kind |-> "sql", text |-> ""],
               argv |-> SqliteArgv(el),
               events |-> <<"find_executable", "spawn_sqlite3">>]

\* {'utf-8': 'utf8'}.get(element.encoding.lower(), element.encoding or 'utf8')
MysqlEncoding(enc) ==
    IF Lower(enc) = "utf-8" THEN "utf8" ELSE IF Truthy(enc) THEN enc ELSE "utf8"

MysqlStatement(el) ==
    [kind                |-> "mysql",
     verb                |-> "LOAD DATA",
     local               |-> GetAttr(el, "local", ""),
     infile              |-> el.csv.path,
     into_table          |-> el.element.name,
     character_set       |-> MysqlEncoding(el.encoding),
     fields_terminated   |-> el.delimiter,
     fields_enclosed     |-> el.quotechar,
     fields_escaped      |-> el.escapechar,
     lines_terminated    |-> el.lineterminator,
     ignore_lines        |-> el.skiprows]

compile_from_csv_mysql_nocheck(el) ==
    [err |-> "none", cmd |-> MysqlStatement(el), argv |-> <<>>, events |-> <<>>]

compile_from_csv_mysql(el) ==
    IF Truthy(el.na_value) THEN Raised("ValueError", <<>>)
    ELSE [err |-> "none", cmd |-> MysqlStatement(el), argv |-> <<>>,
          events |-> <<>>]

\* {'utf8': 'utf-8'}.get(element.encoding.lower(), element.encoding or 'utf8')
PostgresEncoding(enc) ==
    IF Lower(enc) = "utf8" THEN "utf-8" ELSE IF Truthy(enc) THEN enc ELSE "utf8"

compile_from_csv_postgres(el) ==
    [err |-> "none",
     cmd |-> [kind      |-> "postgresql",
              verb      |-> "COPY",
              table     |-> el.element.name,
              from      |-> el.csv.path,
              format    |-> "CSV",
              delimiter |-> el.delimiter,
              null      |-> el.na_value,
              quote     |-> el.quotechar,
              escape    |-> el.escapechar,
              header    |-> UpperStr(el.header),
              encoding  |-> PostgresEncoding(el.encoding)],
     argv |-> <<>>, events |-> <<>>]

\* options = dict(delimiter=..., ignore_header=int(element.header), ...)
RedshiftOptions(el) ==
    [delimiter      |-> el.delimiter,
     ignore_header  |-> IntOfBool(el.header),
     empty_as_null  |-> TRUE,
     blanks_as_null |-> FALSE,
     compression    |-> GetAttr(el, "compression", "")]

\* The local variable schema_name is assigned only inside
\*   if getattr(element, 'schema_name', None) is None:
\* "unbound" stands for the name being read without having been assigned.
RedshiftSchemaName(el, default_schema) ==
    IF GetAttr(el, "schema_name", None) = None
    THEN IF Truthy(el.element.schema) THEN el.element.schema ELSE default_schema
    ELSE "unbound"

\* the asserts are skipped: the statement is built from whatever it is given
compile_from_csv_redshift_unchecked(el, default_schema) ==
    [err |-> "none",
     cmd |-> [kind          |-> "redshift",
              schema_name   |-> RedshiftSchemaName(el, default_schema),
              table_name    |-> el.element.name,
              data_location |-> el.csv.path,
              access_key    |-> "aws_access_key_id",
              secret_key    |-> "aws_secret_access_key",
              options       |-> RedshiftOptions(el),
              format        |-> "CSV"],
     argv |-> <<>>,
     events |-> <<"read_credentials", "CopyCommand">>]

\* default_schema: sa.inspect(element.bind).default_schema_name
compile_from_csv_redshift(el, default_schema) ==
    IF ~IsS3(el.csv) THEN Raised("AssertionError", <<>>)
    ELSE IF ~StartsWithS3(el.csv.path) THEN Raised("AssertionError", <<>>)
    ELSE IF RedshiftSchemaName(el, default_schema) = "unbound"
         THEN Raised("UnboundLocalError", <<"read_credentials">>)
         ELSE [err |-> "none",
               cmd |-> [kind          |-> "redshift",
                        schema_name   |-> RedshiftSchemaName(el, default_schema),
                        table_name    |-> el.element.name,
                        data_location |-> el.csv.path,
                        access_key    |-> "aws_access_key_id",
                        secret_key    |-> "aws_secret_access_key",
                        options       |-> RedshiftOptions(el),
                        format        |-> "CSV"],
               argv |-> <<>>,
               events |-> <<"read_credentials", "CopyCommand">>]

\* @compiles(CopyFromCSV, <dialect>): the compiler registered for a dialect.
\* redshift is registered only when boto and redshift_sqlalchemy import.
Compile(el, tool, output, default_schema, redshift_registered) ==
    CASE el.element.dialect = "sqlite" -> compile_from_csv_sqlite(el, tool, output)
      [] el.element.dialect = "mysql" -> compile_from_csv_mysql(el)
      [] el.element.dialect = "postgresql" -> compile_from_csv_postgres(el)
      [] el.element.dialect = "redshift" /\ redshift_registered ->
             compile_from_csv_redshift(el, default_schema)
      [] OTHER -> Raised("UnsupportedCompilationError", <<>>)

\* ------------------------------------------------------------ collaborators
\* convert(Temp(<cls>), csv, has_header=...): a temporary copy of the
\* resource in the requested medium.
TempPath(cls) ==
    CASE cls = "S3(CSV)" -> TempS3Path
      [] cls = "SSH(CSV)" -> TempSSHPath
      [] OTHER -> TempLocalPath

convert(cls, c, has_header) ==
    [cls |-> cls, temp |-> TRUE, path |-> TempPath(cls),
     has_header |-> has_header, dialect |-> c.dialect]

\* append(tbl, csv): the handler the dispatcher selects for a resource.
\* A remote-host CSV has a handler of its own, every other CSV is handled by
\* append_csv_to_sql_table.
Dispatch(c) ==
    IF c.cls = "SSH(CSV)" THEN "append_remote_csv" ELSE "append_csv_to_sql_table"

\* ------------------------------------------------------------------- inputs
Opt(k, v) == IF v = None THEN <<>> ELSE (k :> v)

Resources ==
    [cls : Classes, temp : {FALSE}, path : Paths, has_header : Tri,
     dialect : {[delimiter |-> ","]}]

Tables ==
    [name : {"t"}, schema : TableSchemas, dialect : Dialects,
     database : {"db.sqlite"}]

Kwargs ==
    {Opt("header", h) @@ Opt("na_value", na) @@ Opt("schema_name", sn)
       @@ (IF sk = 0 THEN <<>> ELSE ("skiprows" :> sk)) :
     h \in Tri, na \in {None, "NA"}, sn \in SchemaOptions, sk \in SkipRows}

Init ==
    /\ pc = "idle"
    /\ entry = "none"
    /\ tbl = [name |-> "t", schema |-> None, dialect |-> "sqlite",
              database |-> "db.sqlite"]
    /\ csv0 = [cls |-> "CSV", temp |-> FALSE, path |-> LocalPath,
               has_header |-> None, dialect |-> [delimiter |-> ","]]
    /\ csv = csv0
    /\ kwargs = <<>>
    /\ stmt = NoStmt
    /\ inferred = None
    /\ cmd = NoCmd
    /\ argv = <<>>
    /\ err = "none"
    /\ log = <<>>
    /\ rows0 \in 0..MaxInitRows
    /\ committed = rows0
    /\ pending = 0
    /\ txn = FALSE
    /\ temps = {}
    /\ cleaned = {}
    /\ depth = 0

\* ------------------------------------------------------------------ actions
\* append(tbl, csv, **kwargs) dispatched to append_csv_to_sql_table, or the
\* function called directly
CallAppend ==
    /\ pc = "idle"
    /\ \E t \in Tables, c \in Resources, kw \in Kwargs :
          /\ tbl' = t
          /\ csv0' = c
          /\ csv' = c
          /\ kwargs' = kw
    /\ entry' = "append"
    /\ pc' = "called"
    /\ UNCHANGED <<stmt, inferred, cmd, argv, err, log, rows0, committed,
                   pending, txn, temps, cleaned, depth>>

\* CopyFromCSV(tbl, csv, **kwargs) built by a caller and compiled for the
\* table's dialect, without the relocation step
CallCompile ==
    /\ pc = "idle"
    /\ \E t \in Tables, c \in Resources, kw \in Kwargs :
          /\ tbl' = t
          /\ csv0' = c
          /\ csv' = c
          /\ kwargs' = kw
    /\ entry' = "compile"
    /\ pc' = "relocated"
    /\ UNCHANGED <<stmt, inferred, cmd, argv, err, log, rows0, committed,
                   pending, txn, temps, cleaned, depth>>

\* the medium the relocation step converts to ("none": no conversion)
RelocationTargetNoS3(dialect, c) ==
    IF dialect # "redshift" /\ IsS3(c) THEN "CSV"
    ELSE IF dialect = "hive" THEN "SSH(CSV)"
    ELSE "none"

RelocationTarget(dialect, c) ==
    IF dialect = "redshift" /\ ~IsS3(c) THEN "S3(CSV)"
    ELSE IF dialect # "redshift" /\ IsS3(c) THEN "CSV"
    ELSE IF dialect = "hive" THEN "SSH(CSV)"
    ELSE "none"

\* the has_header the converted resource is built with: passed on explicitly
\* only by the conversion to a local copy
ConvertedHeader(target, c) == IF target = "CSV" THEN c.has_header ELSE None

\* lines 149-159: the relocation step.  converts: the conversion succeeds.
Relocate ==
    /\ pc = "called"
    /\ LET target == RelocationTarget(tbl.dialect, csv) IN
       IF target = "none"
       THEN /\ pc' = "relocated"
            /\ UNCHANGED <<csv, log, temps, err, depth>>
       ELSE \E converts \in BOOLEAN :
              /\ log' = Append(log, "convert:" \o target)
              /\ IF ~converts
                 THEN /\ err' = "UnsupportedConversion"
                      /\ pc' = "raised"
                      /\ UNCHANGED <<csv, temps, depth>>
                 ELSE /\ csv' = convert(target, csv, ConvertedHeader(target, csv))
                      /\ temps' = temps \cup {TempPath(target)}
                      /\ err' = err
                      /\ IF target = "SSH(CSV)"
                         THEN /\ depth' = depth + 1
                              /\ pc' = "recursed"
                         ELSE /\ depth' = depth
                              /\ pc' = "relocated"
    /\ UNCHANGED <<entry, tbl, csv0, kwargs, stmt, inferred, cmd, argv, rows0,
                   committed, pending, txn, cleaned>>

\* line 159: return append(tbl, <the remote-host copy>, **kwargs).  The call
\* is dispatched on the relocated resource; the remote-host handler loads the
\* file on the engine's host and returns the table, without relocating.
\* loads: the engine accepts the load; k: the rows it loads.
Recurse ==
    /\ pc = "recursed"
    /\ IF Dispatch(csv) = "append_csv_to_sql_table"
       THEN /\ pc' = "called"
            /\ UNCHANGED <<err, log, committed, cleaned>>
       ELSE \E loads \in BOOLEAN, k \in 0..MaxRows, collected \in BOOLEAN :
              /\ log' = Append(log, "load_remote")
              /\ IF loads
                 THEN /\ committed' = committed + k
                      /\ err' = err
                      /\ pc' = "returned"
                      /\ cleaned' = IF collected THEN temps ELSE cleaned
                 ELSE /\ err' = "EngineError"
                      /\ pc' = "raised"
                      /\ UNCHANGED <<committed, cleaned>>
    /\ UNCHANGED <<entry, tbl, csv0, csv, kwargs, stmt, inferred, cmd, argv,
                   rows0, pending, txn, temps, depth>>

\* lines 161-162: kwargs = merge(csv.dialect, kwargs);
\* stmt = CopyFromCSV(tbl, csv, **kwargs).
\* is_table: isinstance(element, sa.Table), which the dispatch on sa.Table
\* guarantees for an append; inf: what infer_header returns when consulted.
Build ==
    /\ pc = "relocated"
    /\ \E is_table \in BOOLEAN, inf \in Bool :
         LET merged == merge(csv.dialect, kwargs)
             needed == NeedsInference(csv, merged) IN
           /\ (entry = "append" => is_table)
           /\ kwargs' = merged
           /\ IF ~is_table
              THEN /\ err' = "TypeError"
                   /\ pc' = "raised"
                   /\ UNCHANGED <<stmt, inferred, log>>
              ELSE /\ stmt' = CopyFromCSV(tbl, csv, merged,
                                          IF needed THEN inf ELSE None)
                   /\ inferred' = IF needed THEN inf ELSE None
                   /\ log' = IF needed THEN Append(log, "infer_header") ELSE log
                   /\ err' = err
                   /\ pc' = "built"
    /\ UNCHANGED <<entry, tbl, csv0, csv, cmd, argv, rows0, committed, pending,
                   txn, temps, cleaned, depth>>

\* line 163: with tbl.bind.begin() as conn
Begin ==
    /\ pc = "built"
    /\ entry = "append"
    /\ txn' = TRUE
    /\ log' = Append(log, "begin")
    /\ pc' = "begun"
    /\ UNCHANGED <<entry, tbl, csv0, csv, kwargs, stmt, inferred, cmd, argv,
                   err, rows0, committed, pending, temps, cleaned, depth>>

\* rows the sqlite3 process leaves in the table: it works on a connection of
\* its own, so what it imports is visible at once and is not part of the
\* transaction opened on tbl.bind
ImportedBySqlite(dialect, tool, k) ==
    IF dialect = "sqlite" /\ tool THEN k ELSE 0

\* line 164, first half: conn.execute(stmt) compiles stmt for the dialect.
\* tool, output, k: the sqlite3 binary is found, the process writes output,
\* the process imports k rows; default_schema, registered: see Compile.
CompileStmt ==
    /\ \/ pc = "begun"
       \/ pc = "built" /\ entry = "compile"
    /\ \E tool \in BOOLEAN, output \in BOOLEAN, k \in 0..MaxRows,
          default_schema \in DefaultSchemas, registered \in BOOLEAN :
         LET r == Compile(stmt, tool, output, default_schema, registered) IN
           /\ cmd' = r.cmd
           /\ argv' = r.argv
           /\ err' = r.err
           /\ log' = log \o <<"compile">> \o r.events
           /\ committed' = committed + ImportedBySqlite(tbl.dialect, tool, k)
           /\ pc' = IF r.err = "none"
                    THEN (IF entry = "compile" THEN "returned" ELSE "compiled")
                    ELSE (IF entry = "compile" THEN "raised" ELSE "failing")
    /\ UNCHANGED <<entry, tbl, csv0, csv, kwargs, stmt, inferred, rows0,
                   pending, txn, temps, cleaned, depth>>

\* rows a compiled command can load: the empty statement loads none
Loadable(c) == IF c.kind = "sql" THEN {0} ELSE 0..MaxRows

\* line 164, second half: the engine runs the compiled command inside the
\* transaction.  runs: the engine completes it; k: rows written so far.
Execute ==
    /\ pc = "compiled"
    /\ \E runs \in BOOLEAN, k \in Loadable(cmd) :
         /\ pending' = k
         /\ log' = Append(log, "execute")
         /\ IF runs
            THEN /\ err' = err
                 /\ pc' = "executed"
            ELSE /\ err' = "EngineError"
                 /\ pc' = "failing"
    /\ UNCHANGED <<entry, tbl, csv0, csv, kwargs, stmt, inferred, cmd, argv,
                   rows0, committed, txn, temps, cleaned, depth>>

\* line 163, normal exit of the with block: the transaction commits
Commit ==
    /\ pc = "executed"
    /\ committed' = committed + pending
    /\ pending' = 0
    /\ txn' = FALSE
    /\ log' = Append(log, "commit")
    /\ pc' = "committed"
    /\ UNCHANGED <<entry, tbl, csv0, csv, kwargs, stmt, inferred, cmd, argv,
                   err, rows0, temps, cleaned, depth>>

\* line 163, exit of the with block on an exception: the transaction rolls
\* back and the exception propagates
Rollback ==
    /\ pc = "failing"
    /\ pending' = 0
    /\ txn' = FALSE
    /\ log' = Append(log, "rollback")
    /\ pc' = "raised"
    /\ UNCHANGED <<entry, tbl, csv0, csv, kwargs, stmt, inferred, cmd, argv,
                   err, rows0, committed, temps, cleaned, depth>>

\* lines 165-169: return sa.Table(..., autoload=True, schema=tbl.schema).
\* reflects: the reflection succeeds.  The function makes no request to drop
\* a temporary copy; returning releases its references to the resource, and
\* collected tells whether the runtime finalizes the copy at that point.
Reflect ==
    /\ pc = "committed"
    /\ \E reflects \in BOOLEAN, collected \in BOOLEAN :
         /\ log' = Append(log, "reflect")
         /\ IF reflects
            THEN /\ pc' = "returned"
                 /\ err' = err
                 /\ cleaned' = IF collected THEN temps ELSE cleaned
            ELSE /\ pc' = "raised"
                 /\ err' = "ReflectionError"
                 /\ cleaned' = cleaned
    /\ UNCHANGED <<entry, tbl, csv0, csv, kwargs, stmt, inferred, cmd, argv,
                   rows0, committed, pending, txn, temps, depth>>

Next ==
    \/ CallAppend
    \/ CallCompile
    \/ Relocate
    \/ Recurse
    \/ Build
    \/ Begin
    \/ CompileStmt
    \/ Execute
    \/ Commit
    \/ Rollback
    \/ Reflect

Spec == Init /\ [][Next]_vars

\* ---------------------------------------------------------------- typing
Finished == pc \in {"returned", "raised"}

TypeOK ==
    /\ pc \in {"idle", "called", "relocated", "recursed", "built", "begun",
               "compiled", "executed", "committed", "failing", "returned",
               "raised"}
    /\ committed \in 0..(MaxInitRows + 2 * MaxRows)
    /\ pending \in 0..MaxRows
    /\ depth \in 0..1

\* ------------------------------------------------------- claim vocabulary
Supported == {"sqlite", "mysql", "postgresql", "redshift"}

\* the medium a dialect's loader reads from
RequiredMedium(dialect) ==
    CASE dialect = "redshift" -> "S3(CSV)"
      [] dialect = "hive" -> "SSH(CSV)"
      [] OTHER -> "CSV"

Requested(e) == e \in Range(log)

Count(e) == Cardinality({i \in 1..Len(log) : log[i] = e})

Precedes(a, b) ==
    \A j \in 1..Len(log) : log[j] = b => \E i \in 1..(j - 1) : log[i] = a

ConversionRequests ==
    {i \in 1..Len(log) :
        log[i] \in {"convert:S3(CSV)", "convert:CSV", "convert:SSH(CSV)"}}

\* errors raised while the compiled command is compiled or executed
CommandErrors ==
    {"AssertionError", "MDNotImplementedError", "ValueError",
     "UnboundLocalError", "UnsupportedCompilationError", "EngineError"}

\* ------------------------------------------------------------------ claims

\* C1: for every supported dialect, an append that fails with an error raised
\* while the command is compiled or executed leaves the table's visible rows
\* as they were before the call (sqlite included).
C1_FailedLoadLeavesTableUnchanged ==
    (/\ entry = "append"
     /\ tbl.dialect \in Supported
     /\ pc = "raised"
     /\ err \in CommandErrors)
    => committed = rows0

\* C2: an append to a redshift table from a resource that is not an S3 CSV
\* requests the conversion to a temporary S3 CSV before anything is compiled,
\* the compiled command names the relocated s3:// path and not the original
\* one, and nothing is compiled for redshift from a non-S3 resource.
C2_RedshiftRelocatesBeforeCompile ==
    (entry = "append" /\ tbl.dialect = "redshift" /\ ~IsS3(csv0))
    => /\ Precedes("convert:S3(CSV)", "compile")
       /\ Requested("compile") => (IsS3(stmt.csv) /\ stmt.csv.path = TempS3Path)
       /\ cmd.kind = "redshift" =>
            /\ cmd.data_location = csv.path
            /\ StartsWithS3(cmd.data_location)
            /\ cmd.data_location # csv0.path
            /\ csv.temp

C2_Witness ==
    /\ entry = "append"
    /\ tbl.dialect = "redshift"
    /\ csv0.cls = "CSV"
    /\ csv0.path = LocalPath
    /\ pc = "returned"
    /\ cmd.kind = "redshift"
    /\ cmd.data_location = TempS3Path

\* C3: the relocation step requests no conversion and keeps the resource when
\* the resource is already in the medium the dialect requires (redshift with
\* an S3 CSV, mysql/postgresql/sqlite with a local CSV, hive with an SSH CSV),
\* and the same holds when the step is run again on its result.
C3_RelocationIdempotent ==
    (/\ entry = "append"
     /\ pc \notin {"idle", "called"}
     /\ csv0.cls = RequiredMedium(tbl.dialect))
    => /\ ConversionRequests = {}
       /\ csv = csv0
       /\ RelocationTarget(tbl.dialect, csv) = "none"

\* C4: the compiled command carries a header directive that matches the
\* resolved header flag: -header / -noheader for sqlite, HEADER TRUE / FALSE
\* for postgresql, ignore_header 1 / 0 for redshift, and a mysql statement
\* that differs between header true and false.
C4_HeaderDirectiveMatches ==
    /\ (tbl.dialect = "sqlite" /\ argv # <<>>) =>
          /\ stmt.header = "True" =>
                ("-header" \in Range(argv) /\ "-noheader" \notin Range(argv))
          /\ stmt.header = "False" =>
                ("-noheader" \in Range(argv) /\ "-header" \notin Range(argv))
    /\ cmd.kind = "postgresql" =>
          /\ stmt.header = "True" => cmd.header = "TRUE"
          /\ stmt.header = "False" => cmd.header = "FALSE"
    /\ cmd.kind = "redshift" =>
          /\ stmt.header = "True" => cmd.options.ignore_header = 1
          /\ stmt.header = "False" => cmd.options.ignore_header = 0
    /\ cmd.kind = "mysql" =>
          MysqlStatement([stmt EXCEPT !.header = "True"])
             # MysqlStatement([stmt EXCEPT !.header = "False"])

\* C5: the redshift compiler resolves the schema name as the schema_name
\* option when given, else the table's schema, else the engine's default
\* schema, and for every combination returns a command carrying that name.
C5_SchemaResolved ==
    (/\ tbl.dialect = "redshift"
     /\ Requested("compile")
     /\ IsS3(stmt.csv)
     /\ StartsWithS3(stmt.csv.path)
     /\ err # "UnsupportedCompilationError")
    => /\ cmd.kind = "redshift"
       /\ cmd.schema_name =
            (IF GetAttr(stmt, "schema_name", None) # None
             THEN GetAttr(stmt, "schema_name", None)
             ELSE IF tbl.schema # None THEN tbl.schema ELSE "public")

\* C6: the header stored on a CopyFromCSV is a concrete boolean: the caller's
\* header option when it is not None, else the resource's has_header when
\* that is not None, else what infer_header returned; an explicit False stays
\* False.
C6_HeaderResolved ==
    stmt # NoStmt =>
      /\ stmt.header \in Bool
      /\ Get(kwargs, "header", None) # None =>
            stmt.header = Get(kwargs, "header", None)
      /\ (Get(kwargs, "header", None) = None /\ stmt.csv.has_header # None) =>
            stmt.header = stmt.csv.has_header
      /\ (Get(kwargs, "header", None) = None /\ stmt.csv.has_header = None) =>
            (inferred \in Bool /\ stmt.header = inferred)

C6_Witness ==
    /\ stmt # NoStmt
    /\ Get(kwargs, "header", None) = "False"
    /\ stmt.csv.has_header = "True"
    /\ stmt.header = "False"
    /\ cmd # NoCmd

\* C7: for mysql, a non-empty na_value always ends the compile in ValueError
\* with no statement; with the empty na_value it returns one LOAD DATA
\* statement that has no null-value clause.
C7_MysqlRejectsNaValue ==
    (tbl.dialect = "mysql" /\ Requested("compile")) =>
      /\ stmt.na_value # "" => (err = "ValueError" /\ cmd = NoCmd)
      /\ stmt.na_value = "" =>
            /\ cmd.kind = "mysql"
            /\ cmd.verb = "LOAD DATA"
            /\ (DOMAIN cmd) \cap {"null", "nullvalue", "na_value"} = {}

C7_Witness ==
    /\ tbl.dialect = "mysql"
    /\ Requested("compile")
    /\ stmt.na_value = "NA"
    /\ err = "ValueError"
    /\ pc = "raised"

\* C8: the redshift compiler, given a resource that is not an S3 CSV or whose
\* path does not start with s3://, ends in an assertion error, returns no
\* command, and has neither read the credentials nor built a command object.
C8_RedshiftPrecondition ==
    (/\ tbl.dialect = "redshift"
     /\ Requested("compile")
     /\ (~IsS3(stmt.csv) \/ ~StartsWithS3(stmt.csv.path))
     /\ err # "UnsupportedCompilationError")
    => /\ err = "AssertionError"
       /\ cmd = NoCmd
       /\ ~Requested("read_credentials")
       /\ ~Requested("CopyCommand")

C8_Witness ==
    /\ tbl.dialect = "redshift"
    /\ Requested("compile")
    /\ IsS3(stmt.csv)
    /\ ~StartsWithS3(stmt.csv.path)
    /\ err = "AssertionError"
    /\ pc = "raised"

\* C9: every temporary copy created by the relocation step has had its
\* cleanup requested by the time the append finishes, with a result or with
\* an error.
C9_TemporariesCleaned ==
    (entry = "append" /\ Finished) => temps \subseteq cleaned

\* C10: for hive, an append with any resource requests the conversion to a
\* remote-host temporary copy exactly once, recurses once and the recursive
\* call relocates nothing further.
C10_HiveRelocatesOnce ==
    (entry = "append" /\ tbl.dialect = "hive" /\ Finished)
    => /\ Count("convert:SSH(CSV)") = 1
       /\ Cardinality(ConversionRequests) = 1
       /\ depth <= 1
       /\ pc = "returned" => (depth = 1 /\ Requested("load_remote"))

====
